---- MODULE Spec2Model ----
(***************************************************************************)
(* Model of app.py: the prompt-template browser.                           *)
(*   load_data            - reads every CSV of the data directory          *)
(*   main script          - warning/stop, filter, scene selection          *)
(*   extract_placeholders - regex scan of the template body                *)
(*   substitution loop    - chained str.replace per (placeholder, value)   *)
(* Strings are sequences of one-character strings.  The full-width         *)
(* brackets of the source are written LB and RB here, the ASCII brackets   *)
(* LS and RS, the line break NL.                                           *)
(***************************************************************************)
EXTENDS Integers, Sequences, FiniteSets, TLC

VARIABLES
    pc,             \* position in the script
    files,          \* the data directory: file id -> kind of file
    all_files,      \* result of glob.glob, in iteration order
    fidx,           \* index of the next file of the for loop of load_data
    df_list,        \* frames appended so far (sequence of sequences of rows)
    errors,         \* files reported with st.error, in order
    df,             \* result of load_data: None or a sequence of rows
    search_query,   \* sidebar text input
    selected_category, \* sidebar selectbox
    filtered_df,    \* sequence of row indices of df kept by the filter
    picked,         \* position in filtered_df of the option the user picked
    raw_prompt,     \* body of selected_row
    ph_list,        \* list(set(matches)) of extract_placeholders
    pidx,           \* index of the next placeholder of the input loop
    user_inputs,    \* dict in insertion order: sequence of <<name, value>>
    add_instruction,\* checkbox
    final_prompt    \* text shown in the text area

vars == <<pc, files, all_files, fidx, df_list, errors, df, search_query,
          selected_category, filtered_df, picked, raw_prompt, ph_list, pidx,
          user_inputs, add_instruction, final_prompt>>

loadVars == <<files, all_files, fidx, df_list, errors, df>>
uiVars   == <<search_query, selected_category, filtered_df, picked>>
textVars == <<raw_prompt, ph_list, pidx, user_inputs, add_instruction, final_prompt>>

\* load_data returns None or a DataFrame: None is the empty tuple, a
\* DataFrame t (its rows, possibly none) is the one-element tuple Some(t).
None == <<>>
Some(t) == <<t>>
Table(d) == d[1]

(***************************************************************************)
(* Characters                                                              *)
(***************************************************************************)
LB == "{"     \* full-width opening bracket
RB == "}"     \* full-width closing bracket
LS == "["
RS == "]"
NL == "\n"

IsOpen(c)  == c \in {LB, LS}
IsClose(c) == c \in {RB, RS}

SeqsUpTo(S, n) == UNION {[1..k -> S] : k \in 0..n}

Min(a, b) == IF a < b THEN a ELSE b

(***************************************************************************)
(* re.findall(r'[LB\[](.+?)[RB\]]', text)                                  *)
(***************************************************************************)
\* With the opener matched and text[p+1 .. q-1] consumed by ".+?", the lazy
\* quantifier stops at the first q whose character is a closer; "." does not
\* match a line break.  0 when the attempt fails.
RECURSIVE LazyClose(_, _)
LazyClose(text, q) ==
    IF q > Len(text) THEN 0
    ELSE IF IsClose(text[q]) THEN q
    ELSE IF text[q] = NL THEN 0
    ELSE LazyClose(text, q + 1)

\* The pattern with ".*?" in place of ".+?": the span may be empty.
MatchAtStar(text, p) ==
    IF p > Len(text) THEN 0
    ELSE IF ~IsOpen(text[p]) THEN 0
    ELSE LazyClose(text, p + 1)

\* Position of the closer of a match whose opener is at p, or 0.
\* ".+" needs one character, whatever it is except a line break.
MatchAt(text, p) ==
    IF p + 1 > Len(text) THEN 0
    ELSE IF ~IsOpen(text[p]) THEN 0
    ELSE IF text[p + 1] = NL THEN 0
    ELSE LazyClose(text, p + 2)

\* The groups of the non-overlapping matches, scanning from p.
RECURSIVE FindAll(_, _)
FindAll(text, p) ==
    IF p > Len(text) THEN <<>>
    ELSE LET q == MatchAt(text, p)
         IN  IF q = 0 THEN FindAll(text, p + 1)
             ELSE <<SubSeq(text, p + 1, q - 1)>> \o FindAll(text, q + 1)

Range(s) == {s[i] : i \in 1..Len(s)}

\* set(matches)
extract_placeholders(text) == Range(FindAll(text, 1))

(***************************************************************************)
(* str.replace(old, new): left to right, non-overlapping                   *)
(***************************************************************************)
StartsAt(s, i, pat) ==
    /\ i + Len(pat) - 1 <= Len(s)
    /\ SubSeq(s, i, i + Len(pat) - 1) = pat

RECURSIVE ReplaceFrom(_, _, _, _)
ReplaceFrom(s, i, old, new) ==
    IF i > Len(s) THEN <<>>
    ELSE IF StartsAt(s, i, old)
         THEN new \o ReplaceFrom(s, i + Len(old), old, new)
         ELSE <<s[i]>> \o ReplaceFrom(s, i + 1, old, new)

str_replace(s, old, new) == ReplaceFrom(s, 1, old, new)

Full(ph)   == <<LB>> \o ph \o <<RB>>
Square(ph) == <<LS>> \o ph \o <<RS>>

\* One iteration of the substitution loop.
ReplaceBoth(text, ph, val) ==
    str_replace(str_replace(text, Full(ph), val), Square(ph), val)

\* The whole loop over user_inputs.items().
RECURSIVE Substitute(_, _)
Substitute(text, inputs) ==
    IF inputs = <<>> THEN text
    ELSE Substitute(ReplaceBoth(text, inputs[1][1], inputs[1][2]), Tail(inputs))

header_instruction == <<LB, "h", RB, NL, NL>>

(***************************************************************************)
(* Bounds and input sets of the text pipeline                              *)
(***************************************************************************)
MaxBodyLen == 4
MaxValLen == 2
MaxNestedLen == 7

TextChars == {LB, RB, LS, RS, "a", NL}
ValChars  == {LB, RB, LS, RS, "a"}
Bodies    == SeqsUpTo(TextChars, MaxBodyLen)
Values    == SeqsUpTo(ValChars, MaxValLen) \ {<<>>}

\* Longer bodies over the ASCII bracket style only, with two names.
NestedChars  == {LS, RS, "a", "b"}
NestedBodies == SeqsUpTo(NestedChars, MaxNestedLen)
NestedValues == {<<"v">>, <<LS, "b", RS>>}

Perms(S) == {s \in [1..Cardinality(S) -> S] : Range(s) = S}

(***************************************************************************)
(* Text pipeline: lines 162-209 of the script                              *)
(***************************************************************************)
TextIdle ==
    /\ ph_list = <<>> /\ pidx = 0 /\ user_inputs = <<>>
    /\ add_instruction = FALSE /\ final_prompt = <<>>

LoadIdle ==
    /\ files = <<>> /\ all_files = <<>> /\ fidx = 0
    /\ df_list = <<>> /\ errors = <<>> /\ df = None

UiIdle ==
    /\ search_query = <<>> /\ selected_category = None
    /\ filtered_df = <<>> /\ picked = 0

\* placeholders = extract_placeholders(raw_prompt): list(set(matches)) has
\* the iteration order of a set of strings, which is any order.
ExtractPlaceholders ==
    /\ pc = "selected"
    /\ \E order \in Perms(extract_placeholders(raw_prompt)) :
          /\ ph_list' = order
          /\ pc' = IF order = <<>> THEN "compile" ELSE "inputs"
    /\ pidx' = 1
    /\ user_inputs' = <<>>
    /\ UNCHANGED <<loadVars, uiVars, raw_prompt, add_instruction, final_prompt>>

\* One iteration of "for ph in placeholders": the user leaves the field
\* empty or types a value; only a non-empty value enters user_inputs.
TextInput(vals) ==
    /\ pc = "inputs"
    /\ pidx <= Len(ph_list)
    /\ \E val \in vals \cup {<<>>} :
          user_inputs' = IF val # <<>>
                         THEN Append(user_inputs, <<ph_list[pidx], val>>)
                         ELSE user_inputs
    /\ pidx' = pidx + 1
    /\ pc' = IF pidx = Len(ph_list) THEN "compile" ELSE "inputs"
    /\ UNCHANGED <<loadVars, uiVars, raw_prompt, ph_list, add_instruction, final_prompt>>

\* The substitution loop, then the optional header.
Compile ==
    /\ pc = "compile"
    /\ \E chk \in BOOLEAN :
          /\ add_instruction' = chk
          /\ final_prompt' =
                IF chk THEN header_instruction \o Substitute(raw_prompt, user_inputs)
                ELSE Substitute(raw_prompt, user_inputs)
    /\ pc' = "done"
    /\ UNCHANGED <<loadVars, uiVars, raw_prompt, ph_list, pidx, user_inputs>>

TextInputAny    == TextInput(Values)
TextInputNested == TextInput(NestedValues)

InitText ==
    /\ pc = "selected"
    /\ raw_prompt \in Bodies
    /\ LoadIdle /\ UiIdle /\ TextIdle

NextText == ExtractPlaceholders \/ TextInputAny \/ Compile

SpecText == InitText /\ [][NextText]_vars

InitNested ==
    /\ pc = "selected"
    /\ raw_prompt \in NestedBodies
    /\ LoadIdle /\ UiIdle /\ TextIdle

NextNested == ExtractPlaceholders \/ TextInputNested \/ Compile

SpecNested == InitNested /\ [][NextNested]_vars

(***************************************************************************)
(* The data directory                                                      *)
(***************************************************************************)
MaxFiles == 3

\* A missing cell (NaN); no text of the model is this word.
Null == <<"NaN">>

\* What a CSV file of the directory can be.
\*   utf8        decodes as UTF-8
\*   cp932       UnicodeDecodeError as UTF-8, decodes as CP932
\*   undecodable UnicodeDecodeError in both encodings
\*   malformed   pd.read_csv raises a parser error
\*   short       parses, fewer than 5 columns
\*   nocol       parses, 5 columns, no column named after the scene keyword
\*   blank       parses, 5 columns, every prompt cell empty
Kinds == {"utf8", "cp932", "undecodable", "malformed", "short", "nocol", "blank"}

Directories == UNION {[1..n -> Kinds] : n \in 0..MaxFiles}

\* Parts of a file name: the fixed prefix, the fixed copy suffix, the extension.
PFX  == "PFX - "
COPY == " COPY"
CSV  == ".csv"

basename(f) ==
    CASE f % 3 = 1 -> <<PFX, "c1", CSV>>
      [] f % 3 = 2 -> <<PFX, "c2", COPY, CSV>>
      [] OTHER     -> <<"c1", CSV>>

\* basename.replace(prefix, "").replace(".csv", "").replace(copy suffix, "")
category_name(name) == SelectSeq(name, LAMBDA x : x \notin {PFX, CSV, COPY})

\* Column names are sequences of words; "keyword in c" is membership.
Header5  == << <<"category">>, <<"No">>, <<"Unnamed">>, <<"scene">>, <<"prompt", "body">> >>
HeaderNo == << <<"category">>, <<"No">>, <<"Unnamed">>, <<"memo">>, <<"prompt", "body">> >>
Header4  == << <<"category">>, <<"No">>, <<"scene">>, <<"prompt", "body">> >>

columns(kind) ==
    CASE kind = "short" -> Header4
      [] kind = "nocol" -> HeaderNo
      [] OTHER          -> Header5

SceneOf(f) == IF f % 2 = 1 THEN <<"a", "B">> ELSE <<"b", ".">>

\* The cells of the file, one tuple per line, in the order of its columns.
cells(f, kind) ==
    CASE kind = "short" -> << << <<"s">>, <<"1">>, SceneOf(f), <<"p">> >> >>
      [] kind = "blank" -> << << <<"s">>, <<"1">>, Null, SceneOf(f), Null >> >>
      [] OTHER ->
           << << <<"s">>, <<"1">>, Null, SceneOf(f), <<"p">> >>,
              << Null,    <<"2">>, Null, Null,       Null >>,
              << <<"s">>, <<"3">>, Null, SceneOf(f), <<LB, "a", RB>> >> >>

\* pd.read_csv(filename, encoding=...): "ok" or the exception raised.
read_csv(kind, encoding) ==
    CASE kind = "malformed"   -> "ParserError"
      [] kind = "undecodable" -> "UnicodeDecodeError"
      [] kind = "cp932" /\ encoding = "utf-8" -> "UnicodeDecodeError"
      [] OTHER -> "ok"

\* Reading as UTF-8 only.
read_without_fallback(kind) == read_csv(kind, "utf-8")

\* The inner try/except: UTF-8 first, CP932 on UnicodeDecodeError only.
read_with_fallback(kind) ==
    IF read_csv(kind, "utf-8") = "UnicodeDecodeError"
    THEN read_csv(kind, "cp932")
    ELSE read_csv(kind, "utf-8")

\* [c for c in df.columns if keyword in c]: the indices of the columns.
RECURSIVE ColumnsWith(_, _, _)
ColumnsWith(cols, keyword, i) ==
    IF i > Len(cols) THEN <<>>
    ELSE IF keyword \in Range(cols[i])
         THEN <<i>> \o ColumnsWith(cols, keyword, i + 1)
         ELSE ColumnsWith(cols, keyword, i + 1)

\* Projection to (sub category, scene, prompt), the category tag, dropna.
frame(f, kind) ==
    LET cols  == columns(kind)
        cSub  == ColumnsWith(cols, "category", 1)[1]
        cScn  == ColumnsWith(cols, "scene", 1)[1]
        cPrm  == ColumnsWith(cols, "prompt", 1)[1]
        rows  == cells(f, kind)
        proj  == [i \in 1..Len(rows) |->
                    [sub |-> rows[i][cSub], scene |-> rows[i][cScn],
                     prompt |-> rows[i][cPrm],
                     major |-> category_name(basename(f))]]
    IN  SelectSeq(proj, LAMBDA r : r.prompt # Null)

\* The body of the for loop for one file: "raise" (caught by the outer
\* except and reported), "skip" (nothing appended) or "append".
process_file(kind) ==
    IF read_with_fallback(kind) # "ok" THEN "raise"
    ELSE IF Len(columns(kind)) < 5 THEN "skip"
    ELSE IF \E k \in {"scene", "prompt", "category"} :
               ColumnsWith(columns(kind), k, 1) = <<>>
         THEN "raise"
    ELSE "append"

\* pd.concat(df_list, ignore_index=True)
RECURSIVE concat(_)
concat(frames) ==
    IF frames = <<>> THEN <<>> ELSE frames[1] \o concat(Tail(frames))

(***************************************************************************)
(* load_data                                                               *)
(***************************************************************************)
\* glob.glob: the files of the directory in an order the OS chooses.
Glob ==
    /\ pc = "start"
    /\ \E order \in Perms(DOMAIN files) :
          /\ all_files' = order
          /\ IF order = <<>>
             THEN pc' = "loaded" /\ df' = None
             ELSE pc' = "loop" /\ df' = df
    /\ fidx' = 1
    /\ df_list' = <<>>
    /\ UNCHANGED <<files, errors, uiVars, textVars>>

LoadFile ==
    /\ pc = "loop"
    /\ fidx <= Len(all_files)
    /\ LET f == all_files[fidx]
           r == process_file(files[f])
       IN  /\ df_list' = IF r = "append"
                         THEN Append(df_list, frame(f, files[f])) ELSE df_list
           /\ errors' = IF r = "raise" THEN Append(errors, f) ELSE errors
    /\ fidx' = fidx + 1
    /\ pc' = IF fidx = Len(all_files) THEN "concat" ELSE "loop"
    /\ UNCHANGED <<files, all_files, df, uiVars, textVars>>

LoadReturn ==
    /\ pc = "concat"
    /\ df' = IF df_list # <<>> THEN Some(concat(df_list)) ELSE None
    /\ pc' = "loaded"
    /\ UNCHANGED <<files, all_files, fidx, df_list, errors, uiVars, textVars>>

\* "if df is None: st.warning(...); st.stop()"
MainCheck ==
    /\ pc = "loaded"
    /\ pc' = IF df = None THEN "stopped" ELSE "sidebar"
    /\ UNCHANGED <<loadVars, uiVars, textVars>>

(***************************************************************************)
(* Sidebar, filter and scene selection: lines 113-150                      *)
(***************************************************************************)
MaxRows == 2
LabelLen == 40

ALL == <<"ALL">>      \* the "all categories" entry of the selectbox

\* Keywords typed in the search box: letters in either case, the regex
\* wildcard and an opening parenthesis.
Queries == {<<>>, <<"a">>, <<"A">>, <<".">>, <<"(">>, <<"b", ".">>, <<"B", "a">>}

Lower(c) == CASE c = "A" -> "a" [] c = "B" -> "b" [] OTHER -> c

\* re.compile(pat, re.IGNORECASE): a pattern with an unclosed group or an
\* unclosed character set is an error.  No keyword of Queries holds a
\* backslash, a closing parenthesis or a closing bracket.
re_compile_ok(pat) == \A i \in 1..Len(pat) : pat[i] \notin {"(", LS}

\* One pattern character against one subject character, ignoring case.
re_char(p, c) == IF p = "." THEN c # NL ELSE Lower(p) = Lower(c)

re_search(pat, subject) ==
    \E i \in 1..(Len(subject) - Len(pat) + 1) :
        \A j \in 1..Len(pat) : re_char(pat[j], subject[i + j - 1])

\* Series.str.contains(pat, case=False, na=False) for one cell; regex=True
\* is the default.
str_contains(cell, pat) == IF cell = Null THEN FALSE ELSE re_search(pat, cell)

\* filtered_df[filtered_df["major"] == selected_category], as row indices
category_filter(table, idxs, cat) ==
    IF cat # ALL THEN SelectSeq(idxs, LAMBDA i : table[i].major = cat) ELSE idxs

\* A keyword mask computed on the whole table instead of the rows kept so far.
keyword_filter_whole_table(table, idxs, query) ==
    IF query # <<>>
    THEN SelectSeq([i \in 1..Len(table) |-> i],
                   LAMBDA i : \/ str_contains(table[i].scene, query)
                              \/ str_contains(table[i].sub, query))
    ELSE idxs

\* The keyword mask applied to the rows kept so far.
keyword_filter(table, idxs, query) ==
    IF query # <<>>
    THEN SelectSeq(idxs, LAMBDA i : \/ str_contains(table[i].scene, query)
                                    \/ str_contains(table[i].sub, query))
    ELSE idxs

AllRows(table) == [i \in 1..Len(table) |-> i]

\* df["major"].unique()
Categories(table) == {table[i].major : i \in 1..Len(table)}

\* The two sidebar widgets.
Sidebar ==
    /\ pc = "sidebar"
    /\ search_query' \in Queries
    /\ selected_category' \in {ALL} \cup Categories(Table(df))
    /\ pc' = "filter"
    /\ UNCHANGED <<loadVars, filtered_df, picked, textVars>>

\* The two masks as a function of the table and the two widgets.
filter_rows(table, cat, query) ==
    keyword_filter(table, category_filter(table, AllRows(table), cat), query)

\* filtered_df = df.copy(), the category mask, the keyword mask.  An invalid
\* regular expression raises re.error out of str.contains and ends the run.
Filter ==
    /\ pc = "filter"
    /\ IF search_query # <<>> /\ ~re_compile_ok(search_query)
       THEN /\ pc' = "filter_error"
            /\ filtered_df' = category_filter(Table(df), AllRows(Table(df)), selected_category)
       ELSE /\ pc' = "filtered"
            /\ filtered_df' = filter_rows(Table(df), selected_category, search_query)
    /\ UNCHANGED <<loadVars, search_query, selected_category, picked, textVars>>

\* "if filtered_df.empty: st.info(...)"
NoResults ==
    /\ pc = "filtered"
    /\ filtered_df = <<>>
    /\ pc' = "no_results"
    /\ UNCHANGED <<loadVars, uiVars, textVars>>

Prefix(s, n) == SubSeq(s, 1, Min(n, Len(s)))

\* "[" + major + "] " + scene.str[:40] + "..."; a missing scene gives a
\* missing label.
display_label(row) ==
    IF row.scene = Null THEN Null
    ELSE <<LB>> \o row.major \o <<RB, " ">> \o Prefix(row.scene, LabelLen)
         \o <<".", ".", ".">>

\* filtered_df[filtered_df["display_label"] == label]: NaN equals nothing.
rows_with_label(table, idxs, label) ==
    SelectSeq(idxs, LAMBDA i : /\ label # Null
                               /\ display_label(table[i]) = label)

\* The selectbox returns the label of the option picked; selected_row is
\* the first row carrying that label.  .iloc[0] of no row raises IndexError.
SelectScene ==
    /\ pc = "filtered"
    /\ filtered_df # <<>>
    /\ \E k \in 1..Len(filtered_df) :
          LET label == display_label(Table(df)[filtered_df[k]])
              hits  == rows_with_label(Table(df), filtered_df, label)
          IN  /\ picked' = k
              /\ IF hits = <<>>
                 THEN pc' = "select_error" /\ raw_prompt' = raw_prompt
                 ELSE pc' = "selected" /\ raw_prompt' = Table(df)[hits[1]].prompt
    /\ UNCHANGED <<loadVars, search_query, selected_category, filtered_df,
                   ph_list, pidx, user_inputs, add_instruction, final_prompt>>

(***************************************************************************)
(* Specifications                                                          *)
(***************************************************************************)
\* The whole run from the directory to the selected template.
Init ==
    /\ pc = "start"
    /\ files \in Directories
    /\ all_files = <<>> /\ fidx = 0 /\ df_list = <<>> /\ errors = <<>> /\ df = None
    /\ UiIdle /\ TextIdle /\ raw_prompt = <<>>

Next ==
    \/ Glob \/ LoadFile \/ LoadReturn \/ MainCheck
    \/ Sidebar \/ Filter \/ NoResults \/ SelectScene

Spec == Init /\ [][Next]_vars

\* load_data and the check of its result alone.
NextLoad == Glob \/ LoadFile \/ LoadReturn \/ MainCheck

SpecLoad == Init /\ [][NextLoad]_vars

\* The script from the sidebar on, for every table load_data can return.
Long(x) == [i \in 1..LabelLen |-> "x"] \o <<x>>

AppScenes == {Null, <<"a", "B">>, Long("a"), Long("b")}
AppSubs   == {Null, <<"b">>}
AppBodies == {<<"p">>, <<LB, "a", RB>>}
AppCats   == {<<"c1">>, <<"c2">>}
AppRows   == [sub : AppSubs, scene : AppScenes, prompt : AppBodies, major : AppCats]
Tables    == SeqsUpTo(AppRows, MaxRows)

InitApp ==
    /\ pc = "sidebar"
    /\ df \in {Some(t) : t \in Tables}
    /\ files = <<>> /\ all_files = <<>> /\ fidx = 0 /\ df_list = <<>> /\ errors = <<>>
    /\ UiIdle /\ TextIdle /\ raw_prompt = <<>>

NextApp == Sidebar \/ Filter \/ NoResults \/ SelectScene

SpecApp == InitApp /\ [][NextApp]_vars

(***************************************************************************)
(* Properties of load_data                                                 *)
(***************************************************************************)
\* load_data has returned.
Loaded == pc \notin {"start", "loop", "concat"}

\* Files that cannot be parsed: no encoding decodes them, or the table is
\* malformed.  Files that parse into the expected five columns.
BadKinds   == {"undecodable", "malformed", "nocol"}
ValidKinds == {"utf8", "cp932", "blank"}
BadFiles   == {f \in DOMAIN files : files[f] \in BadKinds}

\* The records of the valid files, in iteration order.
RECURSIVE ValidRecords(_)
ValidRecords(order) ==
    IF order = <<>> THEN <<>>
    ELSE (IF files[order[1]] \in ValidKinds
          THEN frame(order[1], files[order[1]]) ELSE <<>>)
         \o ValidRecords(Tail(order))

OneBadRestValid ==
    /\ Cardinality(BadFiles) = 1
    /\ \A f \in DOMAIN files : f \notin BadFiles => files[f] \in ValidKinds

Isolated ==
    /\ df # None
    /\ Table(df) = ValidRecords(all_files)
    /\ Len(errors) = 1
    /\ errors[1] \in BadFiles

\* C1 as stated: with exactly one unparseable file among N files, whatever
\* its position, load_data returns the records of the other files, reports
\* that one failure and does not return None.
C1_IsolationAnyN == (Loaded /\ OneBadRestValid) => Isolated

\* C1 amended: the same for N >= 2 files (with N = 1 the only file is the
\* bad one, nothing is appended and load_data returns None).
C1_Isolation == (Loaded /\ OneBadRestValid /\ Len(files) >= 2) => Isolated

\* The bad file comes first of three, one of the others needs the fallback.
C1_Witness ==
    /\ pc = "sidebar" /\ OneBadRestValid /\ Len(files) >= 3
    /\ all_files[1] \in BadFiles
    /\ \E f \in DOMAIN files : files[f] = "cp932"
    /\ Table(df) # <<>>

\* C2: load_data returns None when there is no file or every file failed,
\* the script then stops before the sidebar; and the "no results" message
\* is shown only for a loaded table that has rows.
C2_NoDataOrResults ==
    /\ (Loaded /\ BadFiles = DOMAIN files) => df = None
    /\ (Loaded /\ df = None) => pc \in {"loaded", "stopped"}
    /\ pc = "no_results" => (df # None /\ Table(df) # <<>>)

(***************************************************************************)
(* Properties of the filter and of the selection                           *)
(***************************************************************************)
AfterFilter == pc \in {"filter_error", "filtered", "no_results", "selected", "select_error"}

\* kw occurs in cell as a literal substring, ignoring case
literal_contains(cell, kw) ==
    /\ cell # Null
    /\ \E i \in 1..(Len(cell) - Len(kw) + 1) :
          \A j \in 1..Len(kw) : Lower(kw[j]) = Lower(cell[i + j - 1])

\* C6: for a non-empty keyword the filter keeps exactly the rows of the
\* selected category whose scene or sub category contains the keyword as a
\* literal substring, ignoring case, and it never raises.
C6_LiteralKeyword ==
    /\ pc # "filter_error"
    /\ (AfterFilter /\ search_query # <<>>) =>
          Range(filtered_df) =
             {i \in Range(category_filter(Table(df), AllRows(Table(df)), selected_category)) :
                 \/ literal_contains(Table(df)[i].scene, search_query)
                 \/ literal_contains(Table(df)[i].sub, search_query)}

FilterChain ==
    AfterFilter =>
       /\ Range(filtered_df) \subseteq Range(filter_rows(Table(df), selected_category, <<>>))
       /\ Range(filter_rows(Table(df), selected_category, <<>>))
             \subseteq Range(filter_rows(Table(df), ALL, <<>>))
       /\ Range(filter_rows(Table(df), ALL, <<>>)) = 1..Len(Table(df))

\* C7: the rows kept for (cat, kw) are among the rows kept for (cat, ""),
\* which are among the rows kept for (all, ""), which are the whole table;
\* no step of the script changes the table.
C7_Monotone == [](FilterChain) /\ [][df' = df]_vars

\* A category and a keyword that each drop a row.
C7_Witness ==
    /\ pc = "filtered" /\ search_query # <<>> /\ selected_category # ALL
    /\ Len(filtered_df) < Len(filter_rows(Table(df), selected_category, <<>>))
    /\ Len(filter_rows(Table(df), selected_category, <<>>)) < Len(Table(df))

\* C10: the body used is the body of the row the user picked.
C10_PickedRowBody ==
    pc = "selected" => raw_prompt = Table(df)[filtered_df[picked]].prompt

(***************************************************************************)
(* Properties of extraction and substitution                               *)
(***************************************************************************)
Extracted == pc \in {"inputs", "compile", "done"}

Occurs(s, pat) == \E i \in 1..Len(s) : StartsAt(s, i, pat)
Count(s, pat)  == Cardinality({i \in 1..Len(s) : StartsAt(s, i, pat)})

\* final_prompt without the header
Substituted ==
    IF add_instruction
    THEN SubSeq(final_prompt, Len(header_instruction) + 1, Len(final_prompt))
    ELSE final_prompt

\* One pass over s replacing every occurrence of either bracketed form of
\* ph by val and copying every other character.
RECURSIVE ReplaceEither(_, _, _, _)
ReplaceEither(s, i, ph, val) ==
    IF i > Len(s) THEN <<>>
    ELSE IF StartsAt(s, i, Full(ph))
         THEN val \o ReplaceEither(s, i + Len(Full(ph)), ph, val)
    ELSE IF StartsAt(s, i, Square(ph))
         THEN val \o ReplaceEither(s, i + Len(Square(ph)), ph, val)
    ELSE <<s[i]>> \o ReplaceEither(s, i + 1, ph, val)

\* C3: a body with exactly one placeholder X, filled with V and compiled
\* without the header, is the body with every bracketed X replaced by
\* exactly V and nothing else changed.
C3_RoundTrip ==
    (pc = "done" /\ ~add_instruction /\ Len(ph_list) = 1 /\ Len(user_inputs) = 1) =>
        final_prompt = ReplaceEither(raw_prompt, 1, user_inputs[1][1], user_inputs[1][2])

Filled == {user_inputs[i][1] : i \in 1..Len(user_inputs)}

\* C4: a placeholder left empty keeps every bracketed occurrence it had in
\* the body, whatever the other placeholders were filled with.
C4_Conservative ==
    pc = "done" =>
        \A ph \in Range(ph_list) \ Filled :
            /\ Count(Substituted, Full(ph)) >= Count(raw_prompt, Full(ph))
            /\ Count(Substituted, Square(ph)) >= Count(raw_prompt, Square(ph))

\* C5: every placeholder returned is a span enclosed by brackets of one
\* style: a span opened in one style and closed in the other is not returned.
C5_MatchingKind ==
    Extracted =>
        \A ph \in Range(ph_list) :
            Occurs(raw_prompt, Full(ph)) \/ Occurs(raw_prompt, Square(ph))

HasEmptySpan(s) == Occurs(s, <<LB, RB>>) \/ Occurs(s, <<LS, RS>>)

IsSubstr(a, b) == \E i \in 1..(Len(b) - Len(a) + 1) : StartsAt(b, i, a)

DisjointNames ==
    \A i, j \in 1..Len(user_inputs) :
        i # j => ~IsSubstr(user_inputs[i][1], user_inputs[j][1])

Reordered(inputs) ==
    {[i \in 1..Len(inputs) |-> inputs[p[i]]] : p \in Perms(1..Len(inputs))}

\* C9: with names none of which is a substring of another, the compiled
\* text is the same for every order of the (placeholder, value) pairs.
C9_OrderIndependent ==
    (pc = "done" /\ DisjointNames) =>
        \A other \in Reordered(user_inputs) :
            Substitute(raw_prompt, other) = Substituted

====
